---- MODULE Spec2Model ----
\* disk-exporter: the driver loop of disk_exporter.py and the two collectors it
\* runs whose code is at hand, ipmitool_sel.py (BMC event log) and perccli.py
\* (RAID controllers), over a registry of gauge families.
\*
\* Conventions
\*   - a Python str that the code splits, strips or parses character by
\*     character (the lines of `ipmitool sel list`) is a sequence of
\*     one-character strings; other strs are TLA+ strings;
\*   - a Python dict is a function; `k in d` is k \in DOMAIN d;
\*   - a Python call that may raise returns a record with a field exc, the
\*     name of the exception class raised, or "none".
EXTENDS Integers, Sequences, FiniteSets, TLC

VARIABLES
    pc,                     \* position of the driver in its loop
    idx,                    \* position of the for loop in `collectors` (1-based)
    disabled,               \* the three DISABLE_* flags, in list order
    clock,                  \* time.time()
    last_update_timestamp,  \* the disk_exporter_last_update_time_seconds gauge
    published,              \* the text file write_to_textfile wrote
    smart_metrics,          \* the families of the smartprom collector
    EVENT_LOG,              \* ipmitool_sel.EVENT_LOG: created or not, and its series
    IPMITOOL_EXIT_CODE,     \* ipmitool_sel.IPMITOOL_EXIT_CODE: created or not, its value
    metric_list,            \* perccli.metric_list: name -> family
    log,                    \* what the driver did so far in this cycle
    sel_run,                \* what `ipmitool sel list` returned in this cycle
    perc_run,               \* what perccli returned in this cycle
    call                    \* the last direct call of add_metric and its outcome

vars == <<pc, idx, disabled, clock, last_update_timestamp, published, smart_metrics,
          EVENT_LOG, IPMITOOL_EXIT_CODE, metric_list, log, sel_run, perc_run, call>>

\* ---------------------------------------------------------------- bounds

\* Longest output of `ipmitool sel list`, in lines.
MaxLines == 2
\* Last value of the clock; the clock stays there once it is reached.
MaxClock == 1

\* ------------------------------------------------------- Python helpers

EmptyDict == [x \in {} |-> 0]

Has(d, k) == k \in DOMAIN d

Has2(d, a, b) == Has(d, a) /\ Has(d[a], b)

\* d[k] = v
Put(d, k, v) == [x \in DOMAIN d \cup {k} |-> IF x = k THEN v ELSE d[x]]

\* d.pop(k)
Without(d, k) == [x \in DOMAIN d \ {k} |-> d[x]]

\* A Python value handed to Gauge.set: an int/float or a str.
Num(n) == [t |-> "num", n |-> n, s |-> ""]

Str(s) == [t |-> "str", n |-> 0, s |-> s]

\* The strs of the sample data that int() accepts, with their value; float()
\* accepts them and "1.0".
Numerals ==
    [s \in {"0", "1", "2", "3", "32"} |->
        CASE s = "0" -> 0 [] s = "1" -> 1 [] s = "2" -> 2 [] s = "3" -> 3 [] s = "32" -> 32]

\* int(s) of a str
IntOf(s) ==
    IF s \in DOMAIN Numerals THEN [exc |-> "none", n |-> Numerals[s]]
    ELSE [exc |-> "ValueError", n |-> 0]

\* str(n), "{0}".format(n) for the ints of the sample data
StrOf(n) ==
    CASE n = 0 -> "0" [] n = 1 -> "1" [] n = 2 -> "2" [] n = 3 -> "3" [] n = 32 -> "32"

\* float(value): the number, or ValueError for a str that is no numeral
float(value) ==
    IF value.t = "num" THEN [exc |-> "none", n |-> value.n]
    ELSE IF value.s = "1.0" THEN [exc |-> "none", n |-> 1]
    ELSE IntOf(value.s)

\* The exception classes the code can raise, and which of them derive from
\* Exception (SystemExit and KeyboardInterrupt derive from BaseException only).
ExceptionClasses ==
    {"Exception", "OSError", "ValueError", "KeyError", "IndexError", "SyntaxError",
     "AttributeError", "TypeError", "UnboundLocalError", "UnicodeDecodeError"}

IsException(exc) == exc \in ExceptionClasses

\* ------------------------------------------------ perccli.py: add_metric

metric_prefix == "megacli_"

\* f"{metric_prefix}{name}"
MetricName(name) == <<metric_prefix, name>>

\* The `labels` argument of add_metric is Python source text. Its model is what
\* eval("{" + labels + "}") makes of it: a dict, or a SyntaxError.
Labels(d) == [syntax_ok |-> TRUE, items |-> d]

BadLabels == [syntax_ok |-> FALSE, items |-> EmptyDict]

\* prometheus_client.Gauge(name, labelnames=labels.keys(), registry=REGISTRY)
Gauge(labelnames) == [labelnames |-> labelnames, series |-> EmptyDict]

\* Gauge.labels(**labels): the child of these label values, created with value 0
\* if it is new; ValueError if the family has no label names or the names given
\* are not the family's.
GaugeLabels(family, d) ==
    IF family.labelnames = {} \/ DOMAIN d # family.labelnames
    THEN [exc |-> "ValueError", family |-> family]
    ELSE [exc |-> "none",
          family |-> IF d \in DOMAIN family.series THEN family
                     ELSE [family EXCEPT !.series = Put(family.series, d, 0)]]

\* The handler of add_metric's try: `except ValueError` logs and returns; any
\* other exception leaves add_metric.
AddMetricExcept(exc) == IF exc = "ValueError" THEN "none" ELSE exc

\* add_metric(name, labels, value) on metric_list ml: the new metric_list and
\* the exception that leaves the call.
add_metric(ml, name, labels, value) ==
    LET n == MetricName(name) IN
    IF ~labels.syntax_ok
    THEN [ml |-> ml, exc |-> AddMetricExcept("SyntaxError")]
    ELSE
        LET d == labels.items
            ml1 == IF n \in DOMAIN ml THEN ml ELSE Put(ml, n, Gauge(DOMAIN d))
            child == GaugeLabels(ml1[n], d)
            v == float(value)
        IN  IF child.exc # "none"
            THEN [ml |-> ml1, exc |-> AddMetricExcept(child.exc)]
            ELSE IF v.exc # "none"
            THEN [ml |-> Put(ml1, n, child.family), exc |-> AddMetricExcept(v.exc)]
            ELSE [ml |-> Put(ml1, n, [child.family EXCEPT !.series = Put(@, d, v.n)]),
                  exc |-> "none"]

\* A collect that leaves the series of the cycle before in place.
ClearNone(ml) == ml

\* A collect that forgets its families, so that the next add_metric of a name
\* makes the family again.
ClearForgetsFamilies(ml) == EmptyDict

\* Gauge.clear() on every family of metric_list
ClearAll(ml) == [n \in DOMAIN ml |-> [ml[n] EXCEPT !.series = EmptyDict]]

\* ------------------------------------------- ipmitool_sel.py: the parser

\* The lines of the sample outputs of `ipmitool sel list`.
\* "1 | 01/01/2024 | 00:00:00 | Power | PowerOn |"
LineGood1 ==
    <<"1"," ","|"," ","0","1","/","0","1","/","2","0","2","4"," ","|"," ","0","0",":","0","0",":","0","0"," ","|"," ","P","o","w","e","r"," ","|"," ","P","o","w","e","r","O","n"," ","|">>

\* "1f | 02/29/2024 | 12:30:05 | Fan | Low | Asserted"
LineGood2 ==
    <<"1","f"," ","|"," ","0","2","/","2","9","/","2","0","2","4"," ","|"," ","1","2",":","3","0",":","0","5"," ","|"," ","F","a","n"," ","|"," ","L","o","w"," ","|"," ","A","s","s","e","r","t","e","d">>

\* "zz | 01/01/2024 | 00:00:00 | Power | PowerOn |": the index is no hex number
LineBadIndex ==
    <<"z","z"," ","|"," ","0","1","/","0","1","/","2","0","2","4"," ","|"," ","0","0",":","0","0",":","0","0"," ","|"," ","P","o","w","e","r"," ","|"," ","P","o","w","e","r","O","n"," ","|">>

\* "2 | 01/01/2024 | 00:00:00 | Power": four fields
LineBadCount ==
    <<"2"," ","|"," ","0","1","/","0","1","/","2","0","2","4"," ","|"," ","0","0",":","0","0",":","0","0"," ","|"," ","P","o","w","e","r">>

\* "3 | 02/30/2024 | 00:00:00 | Power | PowerOn |": no such day
LineBadDate ==
    <<"3"," ","|"," ","0","2","/","3","0","/","2","0","2","4"," ","|"," ","0","0",":","0","0",":","0","0"," ","|"," ","P","o","w","e","r"," ","|"," ","P","o","w","e","r","O","n"," ","|">>

\* "": what split("\n") leaves after the last newline
LineShort == <<>>

SampleLines == {LineGood1, LineGood2, LineBadIndex, LineBadCount, LineBadDate, LineShort}

\* Position of the first c in s, 0 if there is none.
RECURSIVE Find(_, _, _)
Find(s, c, i) ==
    IF i > Len(s) THEN 0 ELSE IF s[i] = c THEN i ELSE Find(s, c, i + 1)

\* s.split(c)
RECURSIVE Split(_, _)
Split(s, c) ==
    LET i == Find(s, c, 1) IN
    IF i = 0 THEN <<s>>
    ELSE <<SubSeq(s, 1, i - 1)>> \o Split(SubSeq(s, i + 1, Len(s)), c)

\* s.strip()
RECURSIVE Strip(_)
Strip(s) ==
    IF s = <<>> THEN s
    ELSE IF Head(s) = " " THEN Strip(Tail(s))
    ELSE IF s[Len(s)] = " " THEN Strip(SubSeq(s, 1, Len(s) - 1))
    ELSE s

HexDigits ==
    [c \in {"0","1","2","3","4","5","6","7","8","9","a","b","c","d","e","f",
            "A","B","C","D","E","F"} |->
        CASE c = "0" -> 0 [] c = "1" -> 1 [] c = "2" -> 2 [] c = "3" -> 3 [] c = "4" -> 4
          [] c = "5" -> 5 [] c = "6" -> 6 [] c = "7" -> 7 [] c = "8" -> 8 [] c = "9" -> 9
          [] c \in {"a", "A"} -> 10 [] c \in {"b", "B"} -> 11 [] c \in {"c", "C"} -> 12
          [] c \in {"d", "D"} -> 13 [] c \in {"e", "E"} -> 14 [] c \in {"f", "F"} -> 15]

DecDigits == {"0","1","2","3","4","5","6","7","8","9"}

\* The value of the digits of s in the given base, most significant first.
RECURSIVE DigitsValue(_, _, _)
DigitsValue(s, base, acc) ==
    IF s = <<>> THEN acc ELSE DigitsValue(Tail(s), base, acc * base + HexDigits[Head(s)])

\* int(s, 16): hex digits after an optional 0x; anything else is a ValueError.
IntBase16(s) ==
    LET body == IF Len(s) >= 2 /\ s[1] = "0" /\ s[2] \in {"x", "X"}
                THEN SubSeq(s, 3, Len(s)) ELSE s
    IN  IF body # <<>> /\ \A i \in 1..Len(body) : body[i] \in DOMAIN HexDigits
        THEN [exc |-> "none", n |-> DigitsValue(body, 16, 0)]
        ELSE [exc |-> "ValueError", n |-> 0]

\* A strptime number field: 1..width decimal digits (exactly width when exact).
IsField(s, width, exact) ==
    /\ Len(s) >= (IF exact THEN width ELSE 1)
    /\ Len(s) <= width
    /\ \A i \in 1..Len(s) : s[i] \in DecDigits

IsLeap(y) == (y % 4 = 0 /\ y % 100 # 0) \/ y % 400 = 0

DaysInMonth(y, m) ==
    IF m = 2 THEN (IF IsLeap(y) THEN 29 ELSE 28)
    ELSE IF m \in {4, 6, 9, 11} THEN 30 ELSE 31

\* Days from 1970-01-01 to y-m-d (proleptic Gregorian calendar).
DaysFromCivil(y, m, d) ==
    LET yy == IF m <= 2 THEN y - 1 ELSE y
        era == yy \div 400
        yoe == yy - era * 400
        mp == (m + 9) % 12
        doy == (153 * mp + 2) \div 5 + d - 1
        doe == yoe * 365 + yoe \div 4 - yoe \div 100 + doy
    IN  era * 146097 + doe - 719468

\* int((datetime.strptime(f"{date} {time}", "%m/%d/%Y %H:%M:%S")
\*      - datetime(1970, 1, 1)).total_seconds())
Strptime(date, time) ==
    LET dp == Split(date, "/")
        tp == Split(time, ":")
        shape == /\ Len(dp) = 3 /\ Len(tp) = 3
                 /\ IsField(dp[1], 2, FALSE) /\ IsField(dp[2], 2, FALSE)
                 /\ IsField(dp[3], 4, TRUE)
                 /\ \A i \in 1..3 : IsField(tp[i], 2, FALSE)
        mo == DigitsValue(dp[1], 10, 0)
        da == DigitsValue(dp[2], 10, 0)
        ye == DigitsValue(dp[3], 10, 0)
        ho == DigitsValue(tp[1], 10, 0)
        mi == DigitsValue(tp[2], 10, 0)
        se == DigitsValue(tp[3], 10, 0)
    IN  IF /\ shape
           /\ ye >= 1 /\ mo \in 1..12 /\ da >= 1 /\ da <= DaysInMonth(ye, mo)
           /\ ho <= 23 /\ mi <= 59 /\ se <= 59
        THEN [exc |-> "none",
              n |-> DaysFromCivil(ye, mo, da) * 86400 + ho * 3600 + mi * 60 + se]
        ELSE [exc |-> "ValueError", n |-> 0]

\* The body of the try of ipmitool_sel for one line: the label values of the
\* series it sets, or the exception it raises before EVENT_LOG.labels is called.
ParseLine(line) ==
    LET f == [i \in 1..Len(Split(line, "|")) |-> Strip(Split(line, "|")[i])] IN
    IF Len(f) # 6 THEN [exc |-> "ValueError", labels |-> EmptyDict]
    ELSE
        LET index == IntBase16(f[1])
            stamp == Strptime(f[2], f[3])
        IN  IF index.exc # "none" THEN [exc |-> index.exc, labels |-> EmptyDict]
            ELSE IF stamp.exc # "none" THEN [exc |-> stamp.exc, labels |-> EmptyDict]
            ELSE [exc |-> "none",
                  labels |-> [index |-> index.n, timestamp |-> stamp.n,
                              title |-> f[4], content |-> f[5]]]

\* A loop whose try encloses the for: the first exception ends it.
LineExceptStops(exc) == FALSE

\* What `except Exception` of the loop does with an exception of the body: it
\* logs it and the loop goes on with the next line (TRUE), or the loop ends.
LineExcept(exc) == IsException(exc)

\* The for loop of ipmitool_sel over lines[i..]: the series of EVENT_LOG.
RECURSIVE ParseLines(_, _, _)
ParseLines(lines, i, series) ==
    IF i > Len(lines) THEN series
    ELSE IF Len(lines[i]) < 5 THEN ParseLines(lines, i + 1, series)
    ELSE
        LET r == ParseLine(lines[i]) IN
        IF r.exc = "none" THEN ParseLines(lines, i + 1, Put(series, r.labels, 1))
        ELSE IF LineExcept(r.exc) THEN ParseLines(lines, i + 1, series)
        ELSE series

\* run_smartctl_cmd(["ipmitool", "sel", "list"]) on what the operating system
\* did with the command: Popen raises when it cannot be started, decode raises
\* on output that is not UTF-8; otherwise the output and the exit code.
run_smartctl_cmd(proc) ==
    IF ~proc.started THEN [exc |-> "OSError", lines |-> <<>>, exit_code |-> 0]
    ELSE IF ~proc.utf8 THEN [exc |-> "UnicodeDecodeError", lines |-> <<>>, exit_code |-> 0]
    ELSE [exc |-> "none", lines |-> proc.stdout, exit_code |-> proc.returncode]

\* The families of ipmitool_sel as long as collect has not created them.
NoEventLog == [created |-> FALSE, series |-> EmptyDict]

NoExitCode == [created |-> FALSE, value |-> 0]

\* ipmitool_sel with EVENT_LOG.clear() ahead of the test of the exit code.
IpmitoolSelClearsFirst(event_log, exit_code, proc) ==
    LET r == run_smartctl_cmd(proc) IN
    IF r.exc # "none" THEN [exc |-> r.exc, event_log |-> event_log, exit_code |-> exit_code]
    ELSE [exc |-> "none",
          event_log |-> [event_log EXCEPT !.series =
                            IF r.exit_code # 0 THEN EmptyDict
                            ELSE ParseLines(r.lines, 1, EmptyDict)],
          exit_code |-> [exit_code EXCEPT !.value = r.exit_code]]

\* ipmitool_sel() on the two gauges: sets the exit code, then replaces the
\* series of the event log when the exit code is 0.
ipmitool_sel(event_log, exit_code, proc) ==
    LET r == run_smartctl_cmd(proc) IN
    IF r.exc # "none" THEN [exc |-> r.exc, event_log |-> event_log, exit_code |-> exit_code]
    ELSE IF r.exit_code # 0
    THEN [exc |-> "none", event_log |-> event_log,
          exit_code |-> [exit_code EXCEPT !.value = r.exit_code]]
    ELSE [exc |-> "none",
          event_log |-> [event_log EXCEPT !.series = ParseLines(r.lines, 1, EmptyDict)],
          exit_code |-> [exit_code EXCEPT !.value = r.exit_code]]

\* ipmitool_sel.collect(registry): creates the two gauges on the first call,
\* then runs ipmitool_sel.
ipmitool_sel_collect(event_log, exit_code, proc) ==
    ipmitool_sel([event_log EXCEPT !.created = TRUE],
                 [exit_code EXCEPT !.created = TRUE], proc)

\* ----------------------------------------- perccli.py: the sample reports

\* "01/01/2024, 00:00:00" and "01/01/2024, 00:00:05"
SystemTime == <<"0","1","/","0","1","/","2","0","2","4",","," ","0","0",":","0","0",":","0","0">>

ControllerTime == <<"0","1","/","0","1","/","2","0","2","4",","," ","0","0",":","0","0",":","0","5">>

\* drive_identifier, "Drive /c0/e32/s1" or "Drive /c0/s1", and the keys the code
\* makes of it with a suffix: the pieces that are concatenated.
DriveIdentifier(c, e, s) ==
    IF e = " " THEN <<"Drive /c", StrOf(c), "/s", s>>
    ELSE <<"Drive /c", StrOf(c), "/e", e, "/s", s>>

DriveKey(c, e, s, suffix) == Append(DriveIdentifier(c, e, s), suffix)

\* One entry of "PD LIST". "EID:Slt" is held as its split(":").
Drive(slot) ==
    ("EID:Slt" :> <<"32", slot>>) @@ ("DID" :> slot) @@ ("State" :> "Onln")
    @@ ("DG" :> IF slot = "0" THEN "0" ELSE "-") @@ ("Intf" :> "SAS")
    @@ ("Med" :> "HDD") @@ ("Model" :> "ST2000")

\* The detailed block of a drive; temperature is its "Drive Temperature".
DriveDetail(c, slot, temperature) ==
    (DriveKey(c, "32", slot, " State") :>
        (("S.M.A.R.T alert flagged by drive" :> "No")
         @@ ("Predictive Failure Count" :> 0) @@ ("Media Error Count" :> 1)
         @@ ("Other Error Count" :> 2) @@ ("Drive Temperature" :> temperature)))
    @@ (DriveKey(c, "32", slot, " Device attributes") :>
        (("Coerced size" :> "8.000 KB [0x10 Sectors]")
         @@ ("Non Coerced size" :> "8.500 KB [0x11 Sectors]")
         @@ ("Raw size" :> "9.000 KB [0x12 Sectors]")
         @@ ("WWN" :> <<"5", "0">>) @@ ("Device Speed" :> "1.0Gb/s") @@ ("Link Speed" :> "1.0Gb/s")
         @@ ("Firmware Revision" :> "FW01") @@ ("SN" :> "S0")))
    @@ (DriveKey(c, "32", slot, " Policies/Settings") :>
        (("Needs EKM Attention" :> "No") @@ ("Sequence Number" :> "2")
         @@ ("Connected Port Number" :> "1(path0)")))

\* "Response Data" of a megaraid_sas controller c with the drives of `slots`.
Megaraid(c, slots) ==
    ("Basics" :>
        (("Controller" :> c) @@ ("Model" :> "PERC H730") @@ ("Serial Number" :> "SN")
         @@ ("Current System Date/time" :> SystemTime)
         @@ ("Current Controller Date/Time" :> ControllerTime)))
    @@ ("Version" :>
        (("Driver Name" :> "megaraid_sas") @@ ("Bios Version" :> "6.33")
         @@ ("Firmware Version" :> "4.30") @@ ("Firmware Package Build" :> "25.5")))
    @@ ("HwCfg" :>
        (("ROC temperature(Degree Celcius)" :> "32") @@ ("Backend Port Count" :> 2)
         @@ ("On Board Memory Size" :> "2048MB")
         @@ ("Current Size of FW Cache (MB)" :> "1")))
    @@ ("Status" :>
        (("Controller Status" :> "Optimal") @@ ("BBU Status" :> 0)
         @@ ("Memory Correctable Errors" :> StrOf(c))
         @@ ("Memory Uncorrectable Errors" :> StrOf(c + 1))))
    @@ ("Scheduled Tasks" :> ("Patrol Read Reoccurrence" :> "168 hrs"))
    @@ ("Drive Groups" :> 1)
    @@ ("Virtual Drives" :> 1)
    @@ ("VD LIST" :>
        << ("DG/VD" :> <<"0", "0">>) @@ ("TYPE" :> "RAID1") @@ ("State" :> "Dgrd")
           @@ ("Name" :> "vd0") @@ ("Cache" :> "RWBD") >>)
    @@ ("Physical Drives" :> Len(slots))
    @@ ("PD LIST" :> [i \in 1..Len(slots) |-> Drive(slots[i])])

\* The same response of a controller that has a cachevault.
WithCachevault(response) == response @@ ("Cachevault_Info" :> << ("Temp" :> "32C") >>)

\* "Response Data" of an mpt3sas controller c with one drive.
Mpt3sas(c) ==
    ("Basics" :>
        (("Controller" :> c) @@ ("Model" :> "HBA330") @@ ("Serial Number" :> "SN")))
    @@ ("Version" :>
        (("Driver Name" :> "mpt3sas") @@ ("Bios Version" :> "8.37")
         @@ ("Firmware Version" :> "16.1") @@ ("Firmware Package Build" :> "16.17")))
    @@ ("HwCfg" :>
        (("ROC temperature(Degree Celsius)" :> "32") @@ ("Backend Port Count" :> 2)))
    @@ ("Status" :> ("Controller Status" :> "OK"))
    @@ ("Physical Device Information" :>
        ((DriveKey(c, "32", "0", "") :> << Drive("0") >>)
         @@ (DriveKey(c, "32", "0", " - Detailed Information") :>
                DriveDetail(c, "0", "30C (86.00 F)"))))

\* One element of "Controllers".
Controller(status, response) ==
    ("Command Status" :> ("Status" :> status)) @@ ("Response Data" :> response)

\* The element perccli prints when the command fails: no "Response Data".
FailedController == ("Command Status" :> ("Status" :> "Failure"))

\* The controllers the sample reports of "/cALL show all J" are made of:
\* controller 0 with two drives and with one, controller 1 with one drive,
\* controller 0 with one drive and a cachevault,
\* an mpt3sas controller, and a controller whose response lacks "HwCfg".
SampleControllers ==
    { Controller("Success", Megaraid(0, <<"0", "1">>)),
      Controller("Success", Megaraid(0, <<"1">>)),
      Controller("Success", Megaraid(1, <<"0">>)),
      Controller("Success", WithCachevault(Megaraid(0, <<"1">>))),
      Controller("Success", Mpt3sas(1)),
      Controller("Success", Without(Megaraid(1, <<"0">>), "HwCfg")) }

\* "Response Data" of controller c in the report of "/cALL/eALL/sALL show all J";
\* temperature0 is the temperature of the drive in slot 0, and the block of the
\* drive in slot 0 is left out unless with0.
DriveInfo(c, with0, temperature0) ==
    (IF with0
     THEN DriveKey(c, "32", "0", " - Detailed Information")
            :> DriveDetail(c, "0", temperature0)
     ELSE EmptyDict)
    @@ (DriveKey(c, "32", "1", " - Detailed Information")
            :> DriveDetail(c, "1", "30C (86.00 F)"))

DetailReport(with0, temperature0) ==
    [Controllers |->
        [c \in 1..2 |-> Controller("Success", DriveInfo(c - 1, with0, temperature0))]]

\* The sample reports of "/cALL/eALL/sALL show all J": well-formed; the drives in
\* slot 0 without a temperature reading; the drives in slot 0 without a block.
SampleDetailReports ==
    { DetailReport(TRUE, "30C (86.00 F)"), DetailReport(TRUE, "N/A"),
      DetailReport(FALSE, "N/A") }

\* ------------------------------------------- perccli.py: the handlers
\* A handler is modelled by its program: the add_metric calls it makes, in
\* order, and the exception it raises after them ("none" if it returns).

Done == [ops |-> <<>>, exc |-> "none"]

Raise(exc) == [ops |-> <<>>, exc |-> exc]

\* One call add_metric(name, labels, value)
Op(name, labels, value) ==
    [ops |-> << [name |-> name, labels |-> labels, value |-> value] >>, exc |-> "none"]

\* p; q
Then(p, q) == IF p.exc # "none" THEN p ELSE [ops |-> p.ops \o q.ops, exc |-> q.exc]

\* The programs ps[lo..hi], one after the other.
RECURSIVE ChainRange(_, _, _)
ChainRange(ps, lo, hi) ==
    IF lo > hi THEN Done
    ELSE IF lo = hi THEN ps[lo]
    ELSE LET mid == (lo + hi) \div 2
             left == ChainRange(ps, lo, mid)
         IN  IF left.exc # "none" THEN left ELSE Then(left, ChainRange(ps, mid + 1, hi))

\* The programs of ps[i..], one after the other.
Chain(ps, i) == ChainRange(ps, i, Len(ps))

\* try: p / except exc: pass
Try(p, exc) == IF p.exc = exc THEN [p EXCEPT !.exc = "none"] ELSE p

\* d[k] where the program is past the check that k is there
Get(d, k) == IF Has(d, k) THEN d[k] ELSE EmptyDict

\* The same for a str and for a number
GetStr(d, k) == IF Has(d, k) THEN d[k] ELSE ""

GetNum(d, k) == IF Has(d, k) THEN d[k] ELSE 0

\* KeyError unless d has k
Need(d, k) == IF Has(d, k) THEN Done ELSE Raise("KeyError")

\* What the regular expressions and string operations of the handlers give on
\* the strs of the sample reports.
\* celsius_regex.findall(s), as numbers
celsius_findall(s) == IF s = "30C (86.00 F)" THEN <<30>> ELSE <<>>

\* barbarians_regex.findall(s), as numbers
barbarians_findall(s) == IF s = "30C (86.00 F)" THEN <<86>> ELSE <<>>

\* [int(x, 16) for x in hex_number_regex.findall(s)]
hex_number_findall(s) ==
    CASE s = "8.000 KB [0x10 Sectors]" -> <<16>>
      [] s = "8.500 KB [0x11 Sectors]" -> <<17>>
      [] s = "9.000 KB [0x12 Sectors]" -> <<18>>
      [] OTHER -> <<>>

\* number_regex.findall(s), as numbers
number_findall(s) == IF s = "2048MB" THEN <<2048>> ELSE <<>>

\* s.split("Gb")[0]
SpeedOf(s) == IF s = "1.0Gb/s" THEN "1.0" ELSE s

\* s.split("(")[0].strip()
PortOf(s) == IF s = "1(path0)" THEN "1" ELSE s

\* s.split("path"): the part after "path" up to ")", when there is one
PathOf(s) == IF s = "1(path0)" THEN <<"0">> ELSE <<>>

\* get_basic_controller_info(response)
get_basic_controller_info(response) ==
    IF Has2(response, "Basics", "Controller")
    THEN [exc |-> "none", controller_index |-> response["Basics"]["Controller"],
          baselabel |-> [adapter |-> StrOf(response["Basics"]["Controller"])]]
    ELSE [exc |-> "KeyError", controller_index |-> 0, baselabel |-> EmptyDict]

\* The labels of one series of the "controller" family: name k set to v.
ControllerLabel(baselabel, k, v) ==
    Labels(baselabel
           @@ [x \in {"bios_version", "serial_number", "firmware_version",
                      "package_build", "product_name"} |-> IF x = k THEN v ELSE ""])

handle_common_controller(response) ==
    LET info == get_basic_controller_info(response)
        base == info.baselabel
        version == Get(response, "Version")
        basics == Get(response, "Basics")
        hwcfg0 == Get(response, "HwCfg")
        typo == "ROC temperature(Degree Celcius)"
        right == "ROC temperature(Degree Celsius)"
        hwcfg == IF Has(hwcfg0, typo) THEN Put(Without(hwcfg0, typo), right, hwcfg0[typo])
                 ELSE hwcfg0
        celsius == IntOf(GetStr(hwcfg, right))
    IN  Chain(<<
            Raise(info.exc),
            Need(response, "Version"), Need(version, "Bios Version"),
            Need(response, "Basics"), Need(basics, "Serial Number"),
            Need(version, "Firmware Version"), Need(version, "Firmware Package Build"),
            Need(basics, "Model"),
            Op("controller", ControllerLabel(base, "serial_number", GetStr(basics, "Serial Number")), Num(1)),
            Op("controller", ControllerLabel(base, "product_name", GetStr(basics, "Model")), Num(1)),
            Op("controller", ControllerLabel(base, "bios_version", GetStr(version, "Bios Version")), Num(1)),
            Op("controller", ControllerLabel(base, "firmware_version", GetStr(version, "Firmware Version")), Num(1)),
            Op("controller", ControllerLabel(base, "package_build", GetStr(version, "Firmware Package Build")), Num(1)),
            Need(response, "HwCfg"), Need(hwcfg, right),
            Raise(celsius.exc),
            Op("controller_temperature_celsius", Labels(base), Num(celsius.n))
        >>, 1)

\* The labels of a series of a physical drive, and of one of its typed series.
PdBaselabel(controller_index, enclosure, slot) ==
    [adapter |-> StrOf(controller_index), enclosure |-> enclosure, slot |-> slot]

PdLabel(pd_baselabel, type) == Labels(pd_baselabel @@ [type |-> type])

\* The try block of create_metrics_of_physical_drive.
PhysicalDriveDetails(pd_baselabel, detailed_info_array, drive_identifier) ==
    LET key == Append(drive_identifier, " - Detailed Information")
        info == Get(detailed_info_array, key)
        kstate == Append(drive_identifier, " State")
        kattr == Append(drive_identifier, " Device attributes")
        kset == Append(drive_identifier, " Policies/Settings")
        state == Get(info, kstate)
        attributes == Get(info, kattr)
        settings == Get(info, kset)
        temperature == GetStr(state, "Drive Temperature")
        coerced == hex_number_findall(GetStr(attributes, "Coerced size"))
        noncoerced == hex_number_findall(GetStr(attributes, "Non Coerced size"))
        raw == hex_number_findall(GetStr(attributes, "Raw size"))
        wwn == IntBase16(IF Has(attributes, "WWN") THEN attributes["WWN"] ELSE <<>>)
        drive_speed == float(Str(SpeedOf(GetStr(attributes, "Device Speed"))))
        link_speed == float(Str(SpeedOf(GetStr(attributes, "Link Speed"))))
        sequence == IntOf(GetStr(settings, "Sequence Number"))
        port == IntOf(PortOf(GetStr(settings, "Connected Port Number")))
        path == PathOf(GetStr(settings, "Connected Port Number"))
        path_number == IntOf(IF path = <<>> THEN "" ELSE path[1])
        First(found) == IF found = <<>> THEN 0 ELSE found[1]
        Index0(found) == IF found = <<>> THEN Raise("IndexError") ELSE Done
    IN  Chain(<<
            Need(detailed_info_array, key),
            Need(info, kstate), Need(info, kattr), Need(info, kset),
            Need(state, "S.M.A.R.T alert flagged by drive"),
            Op("pd_info", PdLabel(pd_baselabel, "smart_alert"),
               Num(IF GetStr(state, "S.M.A.R.T alert flagged by drive") = "Yes" THEN 1 ELSE 0)),
            Need(state, "Predictive Failure Count"),
            Op("pd_errors", PdLabel(pd_baselabel, "predictive"),
               Num(GetNum(state, "Predictive Failure Count"))),
            Need(state, "Media Error Count"),
            Op("pd_errors", PdLabel(pd_baselabel, "media"), Num(GetNum(state, "Media Error Count"))),
            Need(state, "Other Error Count"),
            Op("pd_errors", PdLabel(pd_baselabel, "other"), Num(GetNum(state, "Other Error Count"))),
            Need(state, "Drive Temperature"),
            Index0(celsius_findall(temperature)),
            Op("pd_temperature", PdLabel(pd_baselabel, "celsius"),
               Num(First(celsius_findall(temperature)))),
            Index0(barbarians_findall(temperature)),
            Op("pd_temperature", PdLabel(pd_baselabel, "barbarians"),
               Num(First(barbarians_findall(temperature)))),
            Need(attributes, "Coerced size"), Index0(coerced),
            Op("pd_info", PdLabel(pd_baselabel, "size_coerced"), Num(First(coerced) * 512)),
            Need(attributes, "Non Coerced size"), Index0(noncoerced),
            Op("pd_info", PdLabel(pd_baselabel, "size_non_coerced"), Num(First(noncoerced) * 512)),
            Need(attributes, "Raw size"), Index0(raw),
            Op("pd_info", PdLabel(pd_baselabel, "size_raw"), Num(First(raw) * 512)),
            Need(attributes, "WWN"), Raise(wwn.exc),
            Op("pd_info", PdLabel(pd_baselabel, "wwn"), Num(wwn.n)),
            Need(attributes, "Device Speed"), Raise(drive_speed.exc),
            Op("pd_speed_bits", PdLabel(pd_baselabel, "drive"), Num(drive_speed.n * 1024 * 1024 * 1024)),
            Need(attributes, "Link Speed"), Raise(link_speed.exc),
            Op("pd_speed_bits", PdLabel(pd_baselabel, "link"), Num(link_speed.n * 1024 * 1024 * 1024)),
            Need(settings, "Needs EKM Attention"),
            Op("pd_info", PdLabel(pd_baselabel, "ekm_attention_needed"),
               Num(IF GetStr(settings, "Needs EKM Attention") = "Yes" THEN 1 ELSE 0)),
            Need(settings, "Sequence Number"), Raise(sequence.exc),
            Op("pd_info", PdLabel(pd_baselabel, "sequence_number"), Num(sequence.n)),
            Need(settings, "Connected Port Number"), Raise(port.exc),
            Op("pd_info", PdLabel(pd_baselabel, "port"), Num(port.n)),
            Index0(path), Raise(path_number.exc),
            Op("pd_info", PdLabel(pd_baselabel, "path"), Num(path_number.n)),
            Need(attributes, "Firmware Revision")
        >>, 1)

\* What `except` of create_metrics_of_physical_drive catches.
PhysicalDriveExcept == "KeyError"

create_metrics_of_physical_drive(physical_drive, detailed_info_array, controller_index) ==
    IF ~Has(physical_drive, "EID:Slt") THEN Raise("AttributeError")
    ELSE IF Len(physical_drive["EID:Slt"]) < 2 THEN Raise("IndexError")
    ELSE
        LET enclosure == physical_drive["EID:Slt"][1]
            slot == physical_drive["EID:Slt"][2]
            pd_baselabel == PdBaselabel(controller_index, enclosure, slot)
            did == IF Has(physical_drive, "DID") THEN physical_drive["DID"] ELSE "None"
            dg == IF Has(physical_drive, "DG") THEN physical_drive["DG"] ELSE "None"
            state == IF Has(physical_drive, "State") THEN physical_drive["State"] ELSE "None"
            drive_identifier == DriveIdentifier(controller_index, enclosure, slot)
        IN  Chain(<<
                Op("pd_info", PdLabel(pd_baselabel, "span"), Str(enclosure)),
                Op("pd_info", PdLabel(pd_baselabel, "arm"), Str(slot)),
                Op("pd_info", PdLabel(pd_baselabel, "device_id"), Str(did)),
                Op("pd_info", PdLabel(pd_baselabel, "disk_group"), Str(dg)),
                Op("pd_info", PdLabel(pd_baselabel, "state"),
                   Num(IF state = "Onln" THEN 255 ELSE 0)),
                Try(PhysicalDriveDetails(pd_baselabel, detailed_info_array, drive_identifier),
                    PhysicalDriveExcept)
            >>, 1)

\* The labels of the "cv_temperature" series of handle_megaraid_controller:
\* '{baselabel,cvidx="0"}' is no Python expression.
CachevaultLabels(base, cvidx) == BadLabels

\* get_storcli_json(storcli_args) on what the operating system did with the
\* command: Popen raises when perccli64 cannot be started, json.loads raises on
\* output that is no JSON. The two SystemExit(1) are built and not raised.
get_storcli_json(out) ==
    IF out.kind = "missing" THEN [exc |-> "OSError", data |-> EmptyDict]
    ELSE IF out.kind = "garbage" THEN [exc |-> "ValueError", data |-> EmptyDict]
    ELSE IF ~Has(out.data, "Controllers") THEN [exc |-> "KeyError", data |-> EmptyDict]
    ELSE IF Len(out.data["Controllers"]) = 0 THEN [exc |-> "IndexError", data |-> EmptyDict]
    ELSE IF ~Has2(out.data["Controllers"][1], "Command Status", "Status")
    THEN [exc |-> "KeyError", data |-> EmptyDict]
    ELSE [exc |-> "none", data |-> out.data]

\* datetime.strptime(s, "%m/%d/%Y, %H:%M:%S") as seconds since 1970-01-01
StrptimeComma(s) ==
    LET parts == Split(s, ",") IN
    IF Len(parts) # 2 THEN [exc |-> "ValueError", n |-> 0]
    ELSE Strptime(parts[1], Strip(parts[2]))

\* The body of the loop of handle_megaraid_controller over "VD LIST".
VirtualDrive(controller_index, virtual_drive) ==
    LET position == IF Has(virtual_drive, "DG/VD") THEN virtual_drive["DG/VD"] ELSE <<>>
        Field(k) == IF Has(virtual_drive, k) THEN virtual_drive[k] ELSE "None"
    IN  Chain(<<
            Need(virtual_drive, "State"),
            IF position # <<>> /\ Len(position) < 2 THEN Raise("IndexError") ELSE Done,
            Op("vd_info",
               Labels([controller |-> StrOf(controller_index),
                       DG |-> IF position = <<>> THEN "-1" ELSE position[1],
                       VG |-> IF position = <<>> THEN "-1" ELSE position[2],
                       name |-> Field("Name"), cache |-> Field("Cache"),
                       type |-> Field("TYPE"), state |-> Field("State")]),
               Num(1))
        >>, 1)

\* How many of the virtual drives are in the given state.
CountState(vds, state) == Cardinality({i \in 1..Len(vds) : GetStr(vds[i], "State") = state})

\* The part of handle_megaraid_controller under `if "Drive Groups" in response`.
DriveGroups(response, controller_index, base) ==
    LET status == Get(response, "Status")
        hwcfg == Get(response, "HwCfg")
        correctable == float(Str(GetStr(status, "Memory Correctable Errors")))
        uncorrectable == float(Str(GetStr(status, "Memory Uncorrectable Errors")))
        onboard == number_findall(GetStr(hwcfg, "On Board Memory Size"))
        cache == float(Str(GetStr(hwcfg, "Current Size of FW Cache (MB)")))
        vds == IF Has(response, "VD LIST") THEN response["VD LIST"] ELSE <<>>
        Drives(state, type) == Labels(base @@ [state |-> state, type |-> type])
    IN  Chain(<<
            Op("drive_groups", Labels(base), Num(GetNum(response, "Drive Groups"))),
            Need(response, "Virtual Drives"),
            Op("drives", Drives("Total", "virtual"), Num(GetNum(response, "Virtual Drives"))),
            Need(response, "Status"), Need(status, "Memory Correctable Errors"),
            Raise(correctable.exc),
            Op("memory_errors", Labels([type |-> "correctable"]), Num(correctable.n)),
            Need(status, "Memory Uncorrectable Errors"), Raise(uncorrectable.exc),
            Op("memory_errors", Labels([type |-> "uncorrectable"]), Num(uncorrectable.n)),
            Need(response, "HwCfg"), Need(hwcfg, "On Board Memory Size"),
            IF onboard = <<>> THEN Raise("IndexError") ELSE Done,
            Op("memory_size_bytes", Labels([type |-> "Total memory"]),
               Num(IF onboard = <<>> THEN 0 ELSE onboard[1])),
            Need(hwcfg, "Current Size of FW Cache (MB)"), Raise(cache.exc),
            Op("memory_size_bytes", Labels([type |-> "Write cache"]), Num(cache.n * 1024 * 1024)),
            Need(response, "VD LIST"),
            Chain([i \in 1..Len(vds) |-> VirtualDrive(controller_index, vds[i])], 1),
            Op("drives", Drives("Offline", "virtual"), Num(CountState(vds, "OfLn"))),
            Op("drives", Drives("Degraded", "virtual"), Num(CountState(vds, "Dgrd")))
        >>, 1)

\* handle_megaraid_controller(response); second is what the operating system
\* does with the command "/cALL/eALL/sALL show all J" the handler runs.
handle_megaraid_controller(response, second) ==
    LET info == get_basic_controller_info(response)
        controller_index == info.controller_index
        base == info.baselabel
        status == Get(response, "Status")
        hwcfg == Get(response, "HwCfg")
        tasks == Get(response, "Scheduled Tasks")
        basics == Get(response, "Basics")
        controller_status == GetStr(status, "Controller Status")
        cachevault == IF Has(response, "Cachevault_Info") THEN response["Cachevault_Info"]
                      ELSE <<>>
        CvTemp(i) == IntOf(IF GetStr(cachevault[i], "Temp") = "32C" THEN "32"
                           ELSE GetStr(cachevault[i], "Temp"))
        SystemDate == "Current System Date/time"
        ControllerDate == "Current Controller Date/Time"
        system_time == StrptimeComma(IF Has(basics, SystemDate) THEN basics[SystemDate] ELSE <<>>)
        controller_time ==
            StrptimeComma(IF Has(basics, ControllerDate) THEN basics[ControllerDate] ELSE <<>>)
        difference == IF system_time.n >= controller_time.n
                      THEN system_time.n - controller_time.n
                      ELSE controller_time.n - system_time.n
        physical_drives == GetNum(response, "Physical Drives")
        pd_list == IF Has(response, "PD LIST") THEN response["PD LIST"] ELSE <<>>
        data == get_storcli_json(second)
        controllers == IF Has(data.data, "Controllers") THEN data.data["Controllers"] ELSE <<>>
        drive_info == IF controller_index + 1 <= Len(controllers)
                      THEN Get(controllers[controller_index + 1], "Response Data")
                      ELSE EmptyDict
    IN  Chain(<<
            Raise(info.exc),
            Need(response, "Status"), Need(status, "BBU Status"),
            Op("battery_backup_healthy", Labels(base),
               Num(IF GetNum(status, "BBU Status") \in {0, 32} THEN 1 ELSE 0)),
            Need(status, "Controller Status"),
            Op("degraded", Labels(base), Num(IF controller_status = "Degraded" THEN 1 ELSE 0)),
            Op("failed", Labels(base), Num(IF controller_status = "Failed" THEN 1 ELSE 0)),
            Op("healthy", Labels(base), Num(IF controller_status = "Optimal" THEN 1 ELSE 0)),
            Need(response, "HwCfg"), Need(hwcfg, "Backend Port Count"),
            Op("ports", Labels(base), Num(GetNum(hwcfg, "Backend Port Count"))),
            Need(response, "Scheduled Tasks"), Need(tasks, "Patrol Read Reoccurrence"),
            Op("scheduled_patrol_read", Labels(base),
               Num(IF GetStr(tasks, "Patrol Read Reoccurrence") = "168 hrs" THEN 1 ELSE 0)),
            Chain([i \in 1..Len(cachevault) |->
                      Chain(<< Need(cachevault[i], "Temp"), Raise(CvTemp(i).exc),
                               Op("cv_temperature", CachevaultLabels(base, i - 1),
                                  Num(CvTemp(i).n)) >>, 1)], 1),
            Need(response, "Basics"),
            IF Has(basics, SystemDate) THEN Raise(system_time.exc) ELSE Raise("TypeError"),
            IF Has(basics, ControllerDate) THEN Raise(controller_time.exc)
            ELSE Raise("TypeError"),
            Op("time_difference", Labels(base), Num(difference % 86400)),
            IF Has(response, "Drive Groups") THEN DriveGroups(response, controller_index, base)
            ELSE Done,
            Need(response, "Physical Drives"),
            Op("drives", Labels(base @@ [state |-> "DisksTotal", type |-> "physical"]),
               Num(physical_drives)),
            IF physical_drives > 0
            THEN Chain(<< Raise(data.exc),
                          IF controller_index + 1 > Len(controllers) THEN Raise("IndexError")
                          ELSE Need(controllers[controller_index + 1], "Response Data") >>, 1)
            ELSE Done,
            Need(response, "PD LIST"),
            IF physical_drives > 0 \/ pd_list = <<>> THEN Done ELSE Raise("UnboundLocalError"),
            Chain([i \in 1..Len(pd_list) |->
                      create_metrics_of_physical_drive(pd_list[i], drive_info, controller_index)],
                  1)
        >>, 1)

\* The keys of d in the order the for loop of handle_sas_controller meets
\* them. A dict keeps the order of the JSON text; the model fixes one order.
RECURSIVE KeysOf(_)
KeysOf(keys) ==
    IF keys = {} THEN <<>>
    ELSE LET k == CHOOSE x \in keys : TRUE IN <<k>> \o KeysOf(keys \ {k})

\* The labels of the "drives" series of handle_sas_controller:
\* '{baselabel, state="DisksTotal", type="physical"}' is no Python expression.
SasDrivesLabels(base) == BadLabels

handle_sas_controller(response) ==
    LET info == get_basic_controller_info(response)
        controller_index == info.controller_index
        base == info.baselabel
        status == Get(response, "Status")
        hwcfg == Get(response, "HwCfg")
        devices == Get(response, "Physical Device Information")
        keys == KeysOf(DOMAIN devices)
        Body(key) ==
            IF key[Len(key)] = " - Detailed Information" THEN Done
            ELSE IF devices[key] = <<>> THEN Raise("IndexError")
            ELSE create_metrics_of_physical_drive(devices[key][1], devices, controller_index)
    IN  Chain(<<
            Raise(info.exc),
            Need(response, "Status"), Need(status, "Controller Status"),
            Op("healthy", Labels(base),
               Num(IF GetStr(status, "Controller Status") = "OK" THEN 1 ELSE 0)),
            Need(response, "HwCfg"), Need(hwcfg, "Backend Port Count"),
            Op("ports", Labels(base), Num(GetNum(hwcfg, "Backend Port Count"))),
            Try(Chain(<< Need(response, "Physical Device Information"),
                         Op("drives", SasDrivesLabels(base),
                            Num(Cardinality(DOMAIN devices) \div 2)) >>, 1),
                "AttributeError"),
            Need(response, "Physical Device Information"),
            Chain([i \in 1..Len(keys) |-> Body(keys[i])], 1)
        >>, 1)

\* The body of the for loop of collect for one element of "Controllers".
ControllerBody(controller, second) ==
    LET response == Get(controller, "Response Data")
        driver == GetStr(Get(response, "Version"), "Driver Name")
    IN  Chain(<<
            Need(controller, "Response Data"),
            handle_common_controller(response),
            Need(response, "Version"), Need(Get(response, "Version"), "Driver Name"),
            IF driver = "megaraid_sas" THEN handle_megaraid_controller(response, second)
            ELSE IF driver = "mpt3sas" THEN handle_sas_controller(response)
            ELSE Done
        >>, 1)

\* The exception `except` of collect catches, around the whole for loop.
CollectExcept == "KeyError"

\* The try statement of collect.
CollectTry(data, second) ==
    Try(Chain(<< Need(data, "Controllers"),
                 Chain([i \in 1..Len(Get(data, "Controllers")) |->
                           ControllerBody(data["Controllers"][i], second)], 1) >>, 1),
        CollectExcept)

\* The add_metric calls ops[lo..hi] on ml, up to the first that raises.
RECURSIVE RunOps(_, _, _, _)
RunOps(ml, ops, lo, hi) ==
    IF lo > hi THEN [ml |-> ml, exc |-> "none"]
    ELSE IF lo = hi THEN add_metric(ml, ops[lo].name, ops[lo].labels, ops[lo].value)
    ELSE LET mid == (lo + hi) \div 2
             left == RunOps(ml, ops, lo, mid)
         IN  IF left.exc # "none" THEN left ELSE RunOps(left.ml, ops, mid + 1, hi)

\* Program p on ml.
Run(ml, p) ==
    LET r == RunOps(ml, p.ops, 1, Len(p.ops)) IN
    IF r.exc # "none" THEN r ELSE [ml |-> r.ml, exc |-> p.exc]

\* perccli.collect(registry): first and second are what the operating system
\* does with the two perccli commands of this cycle.
perccli_collect(ml, first, second) ==
    LET data == get_storcli_json(first) IN
    IF data.exc # "none" THEN [ml |-> ml, exc |-> data.exc]
    ELSE Run(ClearAll(ml), CollectTry(data.data, second))

\* ------------------------------------------------- the inputs of a cycle

\* All sequences over S of length 0..n
SeqsUpTo(S, n) == UNION {[1..k -> S] : k \in 0..n}

\* What the operating system does with `ipmitool sel list`.
ProcOut(returncode, stdout) ==
    [started |-> TRUE, utf8 |-> TRUE, returncode |-> returncode, stdout |-> stdout]

ProcNotStarted == [started |-> FALSE, utf8 |-> TRUE, returncode |-> 0, stdout |-> <<>>]

ProcNotUtf8 == [started |-> TRUE, utf8 |-> FALSE, returncode |-> 1, stdout |-> <<>>]

AllSelRuns ==
    {ProcNotStarted, ProcNotUtf8, ProcOut(1, <<LineGood2>>)}
    \cup {ProcOut(0, lines) : lines \in SeqsUpTo(SampleLines, MaxLines)}

FewSelRuns ==
    {ProcNotStarted, ProcOut(1, <<LineGood2>>), ProcOut(0, <<LineGood1, LineBadIndex>>)}

\* The "Controllers" sequences of the sample reports: one sample controller, or
\* two with different controller numbers, in either order.
SampleReports ==
    {<<a>> : a \in SampleControllers}
    \cup {p \in SampleControllers \X SampleControllers :
            p[1]["Response Data"]["Basics"]["Controller"]
                # p[2]["Response Data"]["Basics"]["Controller"]}

\* What the operating system does with a perccli command.
StorcliMissing == [kind |-> "missing", data |-> EmptyDict]

StorcliGarbage == [kind |-> "garbage", data |-> EmptyDict]

StorcliJson(data) == [kind |-> "json", data |-> data]

Report(controllers) == StorcliJson([Controllers |-> controllers])

AllPercRuns ==
    [first : {StorcliMissing, StorcliGarbage, Report(<<FailedController>>)}
             \cup {Report(cs) : cs \in SampleReports},
     second : {StorcliJson(DetailReport(TRUE, "30C (86.00 F)"))}]
    \cup [first : {Report(<<Controller("Success", Megaraid(0, <<"0", "1">>))>>)},
          second : {StorcliMissing} \cup {StorcliJson(d) : d \in SampleDetailReports}]

FewPercRuns ==
    [first : {StorcliMissing,
              Report(<<Controller("Success", Megaraid(0, <<"1">>))>>),
              Report(<<Controller("Success", Mpt3sas(1))>>)},
     second : {StorcliJson(DetailReport(TRUE, "30C (86.00 F)"))}]

\* The smartprom collector is not part of the sources at hand: a call either
\* refreshes its families or raises.
SmartReadings == {"ok", "raise"}

smartctl_collect(smart, reading) ==
    IF reading = "raise" THEN [exc |-> "Exception", smart |-> smart]
    ELSE [exc |-> "none", smart |-> "collected"]

\* -------------------------------------------- disk_exporter.py: the driver

\* The collectors list, the other way round.
CollectorsReversed == <<"perccli", "ipmitool", "smartprom">>

\* The collectors list, in order.
collectors == <<"smartprom", "ipmitool", "perccli">>

\* try_collect without its except clause.
TryCollectNoExcept(exc) == IF exc = "none" THEN "collect" ELSE "crashed"

\* try_collect: where the driver goes on after collect_fun(registry) returned
\* or raised exc. `except Exception` logs the exception; anything else ends
\* the process.
try_collect(exc) == IF exc = "none" \/ IsException(exc) THEN "collect" ELSE "crashed"

\* The families of the registry, as write_to_textfile reads them.
Registry ==
    [last_update |-> last_update_timestamp, smart |-> smart_metrics,
     event_log |-> EVENT_LOG, exit_code |-> IPMITOOL_EXIT_CODE, megacli |-> metric_list]

Event(ev, who, exc) == [ev |-> ev, who |-> who, exc |-> exc]

NoSelRun == [ran |-> FALSE, proc |-> ProcNotStarted]

NoPercRun == [ran |-> FALSE, first |-> StorcliMissing, second |-> StorcliMissing]

NoCall == [made |-> FALSE, name |-> "", labels |-> BadLabels, value |-> Num(0),
           exc |-> "none", existed |-> FALSE]

\* The inputs of the two collectors at hand: the full sample sets when the
\* collector runs alone, a few of them when it runs beside the others.
SelRuns == IF disabled[1] /\ disabled[3] THEN AllSelRuns ELSE FewSelRuns

PercRuns == IF disabled[1] /\ disabled[2] THEN AllPercRuns ELSE FewPercRuns

Init ==
    /\ pc = "collect"
    /\ idx = 1
    /\ disabled \in [1..3 -> BOOLEAN]
    /\ clock = 0
    /\ last_update_timestamp = 0
    /\ published = [written |-> FALSE, last_update |-> 0, smart |-> "none",
                    event_log |-> NoEventLog, exit_code |-> NoExitCode,
                    megacli |-> EmptyDict]
    /\ smart_metrics = "none"
    /\ EVENT_LOG = NoEventLog
    /\ IPMITOOL_EXIT_CODE = NoExitCode
    /\ metric_list = EmptyDict
    /\ log = <<>>
    /\ sel_run = NoSelRun
    /\ perc_run = NoPercRun
    /\ call = NoCall

\* for diable, collector in collectors: the collector is disabled
SkipDisabled ==
    /\ pc = "collect" /\ idx <= Len(collectors) /\ disabled[idx]
    /\ idx' = idx + 1
    /\ UNCHANGED <<pc, disabled, clock, last_update_timestamp, published, smart_metrics,
                   EVENT_LOG, IPMITOOL_EXIT_CODE, metric_list, log, sel_run, perc_run, call>>

\* try_collect(smartctl_collect)
RunSmartprom ==
    /\ pc = "collect" /\ idx <= Len(collectors) /\ collectors[idx] = "smartprom"
    /\ ~disabled[idx]
    /\ \E reading \in SmartReadings :
        LET r == smartctl_collect(smart_metrics, reading) IN
        /\ smart_metrics' = r.smart
        /\ pc' = try_collect(r.exc)
        /\ log' = Append(log, Event("collect", "smartprom", r.exc))
    /\ idx' = idx + 1
    /\ UNCHANGED <<disabled, clock, last_update_timestamp, published,
                   EVENT_LOG, IPMITOOL_EXIT_CODE, metric_list, sel_run, perc_run, call>>

\* try_collect(ipmitool_sel_collect)
RunIpmitool ==
    /\ pc = "collect" /\ idx <= Len(collectors) /\ collectors[idx] = "ipmitool"
    /\ ~disabled[idx]
    /\ \E proc \in SelRuns :
        LET r == ipmitool_sel_collect(EVENT_LOG, IPMITOOL_EXIT_CODE, proc) IN
        /\ sel_run' = [ran |-> TRUE, proc |-> proc]
        /\ EVENT_LOG' = r.event_log
        /\ IPMITOOL_EXIT_CODE' = r.exit_code
        /\ pc' = try_collect(r.exc)
        /\ log' = Append(log, Event("collect", "ipmitool", r.exc))
    /\ idx' = idx + 1
    /\ UNCHANGED <<disabled, clock, last_update_timestamp, published, smart_metrics,
                   metric_list, perc_run, call>>

\* try_collect(perccli_collect)
RunPerccli ==
    /\ pc = "collect" /\ idx <= Len(collectors) /\ collectors[idx] = "perccli"
    /\ ~disabled[idx]
    /\ \E run \in PercRuns :
        LET r == perccli_collect(metric_list, run.first, run.second) IN
        /\ perc_run' = [ran |-> TRUE, first |-> run.first, second |-> run.second]
        /\ metric_list' = r.ml
        /\ pc' = try_collect(r.exc)
        /\ log' = Append(log, Event("collect", "perccli", r.exc))
    /\ idx' = idx + 1
    /\ UNCHANGED <<disabled, clock, last_update_timestamp, published, smart_metrics,
                   EVENT_LOG, IPMITOOL_EXIT_CODE, sel_run, call>>

\* last_update_timestamp.set(time.time())
SetLastUpdate ==
    /\ pc = "collect" /\ idx > Len(collectors)
    /\ last_update_timestamp' = clock
    /\ pc' = "write"
    /\ log' = Append(log, Event("set", "last_update", "none"))
    /\ UNCHANGED <<idx, disabled, clock, published, smart_metrics, EVENT_LOG,
                   IPMITOOL_EXIT_CODE, metric_list, sel_run, perc_run, call>>

\* prometheus_client.write_to_textfile(METRICS_PATH, registry)
WriteToTextfile ==
    /\ pc = "write"
    /\ published' = [written |-> TRUE] @@ Registry
    /\ pc' = "sleep"
    /\ log' = Append(log, Event("write", "registry", "none"))
    /\ UNCHANGED <<idx, disabled, clock, last_update_timestamp, smart_metrics, EVENT_LOG,
                   IPMITOOL_EXIT_CODE, metric_list, sel_run, perc_run, call>>

\* time.sleep(refresh_interval), and the next turn of `while True`
Sleep ==
    /\ pc = "sleep"
    /\ clock' = IF clock < MaxClock THEN clock + 1 ELSE clock
    /\ pc' = "collect"
    /\ idx' = 1
    /\ log' = <<>>
    /\ sel_run' = NoSelRun
    /\ perc_run' = NoPercRun
    /\ UNCHANGED <<disabled, last_update_timestamp, published, smart_metrics, EVENT_LOG,
                   IPMITOOL_EXIT_CODE, metric_list, call>>

Next ==
    \/ SkipDisabled
    \/ RunSmartprom
    \/ RunIpmitool
    \/ RunPerccli
    \/ SetLastUpdate
    \/ WriteToTextfile
    \/ Sleep

Spec == Init /\ [][Next]_vars

\* The loop of the driver is not held up: a step that can be taken is taken.
FairSpec == Spec /\ WF_vars(Next)

\* ------------------------------------------- add_metric, called on its own

AddNames == {"pd_info", "memory_errors"}

AddLabels ==
    {Labels([adapter |-> "0"]), Labels([adapter |-> "1"]),
     Labels([adapter |-> "0", type |-> "span"]), Labels([type |-> "span"]),
     Labels(EmptyDict), BadLabels}

AddValues == {Num(1), Num(2), Str("-")}

InitAddMetric ==
    /\ pc = "add_metric"
    /\ idx = 1
    /\ disabled = [i \in 1..3 |-> TRUE]
    /\ clock = 0
    /\ last_update_timestamp = 0
    /\ published = [written |-> FALSE, last_update |-> 0, smart |-> "none",
                    event_log |-> NoEventLog, exit_code |-> NoExitCode,
                    megacli |-> EmptyDict]
    /\ smart_metrics = "none"
    /\ EVENT_LOG = NoEventLog
    /\ IPMITOOL_EXIT_CODE = NoExitCode
    /\ metric_list = EmptyDict
    /\ log = <<>>
    /\ sel_run = NoSelRun
    /\ perc_run = NoPercRun
    /\ call = NoCall

\* add_metric(name, labels, value)
AddMetricCall ==
    /\ pc = "add_metric"
    /\ \E name \in AddNames, labels \in AddLabels, value \in AddValues :
        LET r == add_metric(metric_list, name, labels, value) IN
        /\ metric_list' = r.ml
        /\ call' = [made |-> TRUE, name |-> name, labels |-> labels, value |-> value,
                    exc |-> r.exc, existed |-> MetricName(name) \in DOMAIN metric_list]
    /\ UNCHANGED <<pc, idx, disabled, clock, last_update_timestamp, published,
                   smart_metrics, EVENT_LOG, IPMITOOL_EXIT_CODE, log, sel_run, perc_run>>

NextAddMetric == AddMetricCall

SpecAddMetric == InitAddMetric /\ [][NextAddMetric]_vars

\* ------------------------------------------------- the terms of the claims

\* The driver called collector `who` in this cycle; the call raised.
Invoked(who) == \E k \in DOMAIN log : log[k].ev = "collect" /\ log[k].who = who

Raised(who) ==
    \E k \in DOMAIN log : log[k].ev = "collect" /\ log[k].who = who /\ log[k].exc # "none"

Happened(ev) == \E k \in DOMAIN log : log[k].ev = ev

\* The megacli_pd_* families, and the drives of the sample reports.
PdFamilies == {MetricName(n) : n \in {"pd_info", "pd_errors", "pd_speed_bits", "pd_temperature"}}

SampleDrives == {"0", "1"} \X {"32"} \X {"0", "1"}

\* Family n of ml has a series with the label values of drive (adapter,
\* enclosure, slot); some megacli_pd_* family has one.
HasDriveSeries(ml, n, drive) ==
    /\ n \in DOMAIN ml
    /\ \E d \in DOMAIN ml[n].series :
        /\ {"adapter", "enclosure", "slot"} \subseteq DOMAIN d
        /\ <<d["adapter"], d["enclosure"], d["slot"]>> = drive

HasPdSeries(ml, drive) == \E n \in PdFamilies : HasDriveSeries(ml, n, drive)

\* The "Controllers" of a report, and the drives a report lists.
ControllersOf(out) ==
    IF out.kind = "json" /\ Has(out.data, "Controllers") THEN out.data["Controllers"] ELSE <<>>

ResponseOf(controller) == Get(controller, "Response Data")

DriverOf(controller) == GetStr(Get(ResponseOf(controller), "Version"), "Driver Name")

AdapterOf(controller) == StrOf(GetNum(Get(ResponseOf(controller), "Basics"), "Controller"))

ListedDrives(controller) ==
    LET response == ResponseOf(controller)
        list == IF Has(response, "PD LIST") THEN response["PD LIST"] ELSE <<>>
        devices == Get(response, "Physical Device Information")
    IN  {<<AdapterOf(controller), list[i]["EID:Slt"][1], list[i]["EID:Slt"][2]>> :
            i \in DOMAIN list}
        \cup {<<AdapterOf(controller), devices[k][1]["EID:Slt"][1], devices[k][1]["EID:Slt"][2]>> :
                k \in {key \in DOMAIN devices : key[Len(key)] # " - Detailed Information"}}

DrivesOfReport(out) ==
    UNION {ListedDrives(ControllersOf(out)[i]) : i \in DOMAIN ControllersOf(out)}

\* Every series of prev is in now with the same value.
Retained(prev, now) ==
    \A n \in DOMAIN prev : \A d \in DOMAIN prev[n].series :
        n \in DOMAIN now /\ d \in DOMAIN now[n].series
        /\ now[n].series[d] = prev[n].series[d]

\* ------------------------------------------------------------------ claims

\* C1: driver isolation. In any cycle, once an enabled collector has raised, the
\* driver has not stopped: it is at the collectors after it, and by the time it
\* is past the list every enabled collector after the one that raised has been
\* invoked in this cycle, the last-update gauge is set before the registry is
\* written, and the registry written is the registry of this cycle.
C1_DriverIsolation ==
    \A i \in 1..Len(collectors) :
        Raised(collectors[i]) =>
            /\ pc \in {"collect", "write", "sleep"}
            /\ idx > i
            /\ \A j \in (i + 1)..Len(collectors) :
                (~disabled[j] /\ idx > j) => Invoked(collectors[j])
            /\ pc \in {"write", "sleep"} =>
                idx > Len(collectors) /\ Happened("set") /\ last_update_timestamp = clock
            /\ pc = "sleep" =>
                Happened("write") /\ published = [written |-> TRUE] @@ Registry

\* A cycle in which smartprom and ipmitool raised, perccli ran and the registry
\* was written.
C1_Witness ==
    /\ pc = "sleep"
    /\ Raised("smartprom") /\ Raised("ipmitool") /\ Invoked("perccli")
    /\ published.written /\ published.last_update = clock

\* C2: disappearance, not zeroing. When the registry is written at the end of
\* a cycle in which perccli gave a report, a drive that has megacli_pd_* series
\* in the file of the cycle before and that the report does not list has no
\* megacli_pd_* series in the file written.
C2_Disappearance ==
    [][ (pc = "write" /\ published.written /\ perc_run.ran /\ perc_run.first.kind = "json")
        => \A drive \in SampleDrives :
            (HasPdSeries(published.megacli, drive)
             /\ drive \notin DrivesOfReport(perc_run.first))
            => ~HasPdSeries(published'.megacli, drive) ]_vars

\* The drive in slot 0 of controller 0 is in the file of the cycle before, the
\* report of this cycle lists the drive in slot 1 only, and the registry about to
\* be written holds the series of slot 1 and none of slot 0.
C2_Witness ==
    /\ pc = "write" /\ published.written /\ perc_run.ran
    /\ perc_run.first = Report(<<Controller("Success", Megaraid(0, <<"1">>))>>)
    /\ HasPdSeries(published.megacli, <<"0", "32", "0">>)
    /\ HasPdSeries(metric_list, <<"0", "32", "1">>)
    /\ ~HasPdSeries(metric_list, <<"0", "32", "0">>)

\* A perccli cycle that fails transiently: the tool is missing, the command
\* status is not Success, or a controller's response lacks "HwCfg".
Transient(out) ==
    \/ out.kind = "missing"
    \/ \E i \in DOMAIN ControllersOf(out) :
        \/ ControllersOf(out)[i]["Command Status"]["Status"] # "Success"
        \/ ~Has(ResponseOf(ControllersOf(out)[i]), "HwCfg")

\* C3: last-known-good on failure. After a perccli cycle that failed
\* transiently, every megacli_* series of the file of the cycle before is still
\* in the registry with the same value.
C3_LastKnownGood ==
    (perc_run.ran /\ pc \in {"collect", "write"} /\ published.written
     /\ Transient(perc_run.first))
    => Retained(published.megacli, metric_list)

\* C4: non-zero exit of `ipmitool sel list`. A call of the collector in which
\* the command returns a non-zero exit code sets ipmitool_exit_code to that code
\* and leaves the series of ipmitool_event_log as they were; a call that changes
\* the series is one in which the command returned 0.
C4_NonZeroExit ==
    [][ (pc = "collect" /\ idx = 2 /\ ~disabled[2] /\ sel_run'.ran)
        => LET proc == sel_run'.proc
               returned == proc.started /\ proc.utf8
           IN  /\ (returned /\ proc.returncode # 0) =>
                    /\ IPMITOOL_EXIT_CODE'.value = proc.returncode
                    /\ EVENT_LOG'.series = EVENT_LOG.series
               /\ (EVENT_LOG'.series # EVENT_LOG.series) =>
                    (returned /\ proc.returncode = 0) ]_vars

\* The command returned 1 in this cycle, the gauge says 1, and the event log
\* still holds the series of the cycle before.
C4_Witness ==
    /\ sel_run.ran /\ sel_run.proc.started /\ sel_run.proc.utf8
    /\ sel_run.proc.returncode = 1
    /\ IPMITOOL_EXIT_CODE.value = 1
    /\ published.written
    /\ EVENT_LOG.series # EmptyDict
    /\ EVENT_LOG.series = published.event_log.series

\* C5: sibling-controller isolation. After a perccli cycle whose report has a
\* controller without "HwCfg", every other controller of the report that has
\* it has its controller_temperature_celsius series in the registry.
C5_SiblingIsolation ==
    perc_run.ran =>
        LET cs == ControllersOf(perc_run.first) IN
        (\E i \in DOMAIN cs :
            Has(cs[i], "Response Data") /\ ~Has(ResponseOf(cs[i]), "HwCfg"))
        => \A j \in DOMAIN cs :
            Has(ResponseOf(cs[j]), "HwCfg")
            => /\ MetricName("controller_temperature_celsius") \in DOMAIN metric_list
               /\ [adapter |-> AdapterOf(cs[j])]
                    \in DOMAIN metric_list[MetricName("controller_temperature_celsius")].series

\* C6: label mismatch fails loudly. A call of add_metric for a family that
\* exists, with labels whose names are not the label names of the family, ends
\* in an exception.
C6_MismatchFailsLoudly ==
    (call.made /\ call.existed /\ call.labels.syntax_ok
     /\ DOMAIN call.labels.items # metric_list[MetricName(call.name)].labelnames)
    => call.exc # "none"

\* The records of the two well-formed sample lines: index (base 16), seconds
\* from 1970-01-01 to the date and time of the line, title and content.
EventRecord(line) ==
    IF line = LineGood1
    THEN [index |-> 1, timestamp |-> 1704067200, title |-> <<"P","o","w","e","r">>,
          content |-> <<"P","o","w","e","r","O","n">>]
    ELSE [index |-> 31, timestamp |-> 1709209805, title |-> <<"F","a","n">>,
          content |-> <<"L","o","w">>]

\* C7: the event log is this cycle's parse. After a call of the collector in
\* which the command returned 0, the series of ipmitool_event_log are the
\* records of the well-formed lines of this output, each set to 1: the short
\* line and the malformed lines give none, wherever they stand in the output,
\* and nothing of an earlier cycle is left.
C7_EventLogSnapshot ==
    (sel_run.ran /\ sel_run.proc.started /\ sel_run.proc.utf8
     /\ sel_run.proc.returncode = 0)
    => LET lines == sel_run.proc.stdout IN
       /\ DOMAIN EVENT_LOG.series =
            {EventRecord(lines[i]) :
                i \in {k \in DOMAIN lines : lines[k] \in {LineGood1, LineGood2}}}
       /\ \A d \in DOMAIN EVENT_LOG.series : EVENT_LOG.series[d] = 1

\* The output of this cycle has a line with a non-hex index ahead of a
\* well-formed line; the event log holds the record of that line and nothing of
\* the other record that the file of the cycle before holds.
C7_Witness ==
    /\ sel_run.ran
    /\ sel_run.proc = ProcOut(0, <<LineBadIndex, LineGood1>>)
    /\ DOMAIN EVENT_LOG.series = {EventRecord(LineGood1)}
    /\ published.written
    /\ DOMAIN published.event_log.series = {EventRecord(LineGood2)}

\* C8: the reduced path of mpt3sas. After a perccli cycle whose report starts
\* with an mpt3sas controller, the registry holds the healthy and the ports
\* series of the controller and a pd_info series of every drive listed under
\* "Physical Device Information".
C8_SasReducedPath ==
    LET cs == ControllersOf(perc_run.first) IN
    (perc_run.ran /\ Len(cs) >= 1 /\ DriverOf(cs[1]) = "mpt3sas")
    => /\ \A n \in {MetricName("healthy"), MetricName("ports")} :
            n \in DOMAIN metric_list
            /\ [adapter |-> AdapterOf(cs[1])] \in DOMAIN metric_list[n].series
       /\ \A drive \in ListedDrives(cs[1]) :
            HasDriveSeries(metric_list, MetricName("pd_info"), drive)

\* The types of the identity series of a drive.
IdentityTypes == {"span", "arm", "device_id", "disk_group", "state"}

\* C9: per-drive record isolation. After a perccli cycle whose report is one
\* well-formed megaraid controller without cachevault and whose report of the
\* drives was read,
\* every drive of "PD LIST" has its five identity series in the registry,
\* whatever the detailed block of any drive looks like.
C9_DriveIsolation ==
    LET cs == ControllersOf(perc_run.first) IN
    (perc_run.ran /\ Len(cs) = 1 /\ DriverOf(cs[1]) = "megaraid_sas"
     /\ Has(ResponseOf(cs[1]), "HwCfg") /\ ~Has(ResponseOf(cs[1]), "Cachevault_Info")
     /\ perc_run.second.kind = "json")
    => \A drive \in ListedDrives(cs[1]) : \A type \in IdentityTypes :
        /\ MetricName("pd_info") \in DOMAIN metric_list
        /\ [adapter |-> drive[1], enclosure |-> drive[2], slot |-> drive[3], type |-> type]
            \in DOMAIN metric_list[MetricName("pd_info")].series

\* The place of an event in a cycle: the collectors in the order of the list of
\* disk_exporter.py, then the timestamp, then the file.
Rank(e) ==
    IF e.ev = "collect"
    THEN (IF e.who = "smartprom" THEN 1 ELSE IF e.who = "ipmitool" THEN 2 ELSE 3)
    ELSE IF e.ev = "set" THEN 4 ELSE 5

Ranks == {Rank(log[k]) : k \in DOMAIN log}

CycleOrder ==
    /\ pc \in {"collect", "write", "sleep"}
    /\ \A k \in 1..(Len(log) - 1) : Rank(log[k]) < Rank(log[k + 1])
    /\ \A i \in 1..3 : disabled[i] => i \notin Ranks
    /\ pc = "collect" => Ranks = {i \in 1..3 : ~disabled[i] /\ i < idx}
    /\ pc = "write" => Ranks = {i \in 1..3 : ~disabled[i]} \cup {4}
    /\ pc = "sleep" => Ranks = {i \in 1..3 : ~disabled[i]} \cup {4, 5}

\* C10: cycle order and non-termination. At every moment the events of the
\* cycle are the enabled collectors, once each and in list order, then the
\* timestamp, then the file, and the driver sleeps only after all of them; no
\* disabled collector is invoked; and the driver sleeps again and again and
\* starts a cycle again and again.
C10_CycleOrder ==
    /\ []CycleOrder
    /\ []<>(pc = "sleep")
    /\ []<>(pc = "collect" /\ idx = 1 /\ log = <<>>)

\* The end of a second cycle in which the three collectors ran.
C10_Witness ==
    /\ pc = "sleep" /\ clock >= 1
    /\ [k \in DOMAIN log |-> Rank(log[k])] = <<1, 2, 3, 4, 5>>
    /\ last_update_timestamp = clock /\ published.last_update = clock

\* The label names of ipmitool_event_log.
EventLogLabelnames == {"index", "timestamp", "title", "content"}

\* Every series of every family has the label names of its family.
SeriesFitFamilies ==
    /\ \A n \in DOMAIN metric_list : \A d \in DOMAIN metric_list[n].series :
        DOMAIN d = metric_list[n].labelnames
    /\ \A d \in DOMAIN EVENT_LOG.series : DOMAIN d = EventLogLabelnames
    /\ (~EVENT_LOG.created) => EVENT_LOG.series = EmptyDict

\* A family that exists stays the family it is: no step removes it or makes it
\* again, and its label names stay.
FamiliesKept ==
    /\ \A n \in DOMAIN metric_list :
        n \in DOMAIN metric_list' /\ metric_list'[n].labelnames = metric_list[n].labelnames
    /\ EVENT_LOG.created => EVENT_LOG'.created
    /\ IPMITOOL_EXIT_CODE.created => IPMITOOL_EXIT_CODE'.created

\* C11: the schema of a family is fixed and registration is idempotent. Over
\* all cycles, a family is made by the first call that uses it and is the same
\* family ever after, with the same label names, and at every moment every
\* series of a family has exactly the label names of the family.
C11_FamilySchemaFixed == []SeriesFitFamilies /\ [][FamiliesKept]_vars

\* A second cycle of perccli and ipmitool: pd_info and the event log exist since
\* the cycle before, with the label names they had, and hold other series than
\* the file of the cycle before.
C11_Witness ==
    /\ pc = "write" /\ published.written /\ perc_run.ran
    /\ MetricName("pd_info") \in DOMAIN published.megacli
    /\ MetricName("pd_info") \in DOMAIN metric_list
    /\ metric_list[MetricName("pd_info")].labelnames
        = published.megacli[MetricName("pd_info")].labelnames
    /\ metric_list[MetricName("pd_info")].labelnames = {"adapter", "enclosure", "slot", "type"}
    /\ published.megacli[MetricName("pd_info")].series # EmptyDict
    /\ metric_list[MetricName("pd_info")].series # EmptyDict
    /\ DOMAIN metric_list[MetricName("pd_info")].series
        # DOMAIN published.megacli[MetricName("pd_info")].series

\* A well-formed megaraid controller whose handler runs to its end.
PlainMegaraid(controller) ==
    /\ DriverOf(controller) = "megaraid_sas"
    /\ Has(ResponseOf(controller), "HwCfg")
    /\ ~Has(ResponseOf(controller), "Cachevault_Info")

\* The labels d say which controller the series is of.
NamesController(d) == "adapter" \in DOMAIN d \/ "controller" \in DOMAIN d

\* C12: no cross-controller overwrite. After a perccli cycle whose report is
\* two or more well-formed megaraid controllers, every series of the registry
\* has a label that says which controller it is of, and megacli_memory_errors
\* holds the count of correctable errors of each controller of the report.
C12_NoCrossControllerOverwrite ==
    LET cs == ControllersOf(perc_run.first) IN
    (perc_run.ran /\ Len(cs) >= 2 /\ \A j \in DOMAIN cs : PlainMegaraid(cs[j]))
    => /\ \A n \in DOMAIN metric_list : \A d \in DOMAIN metric_list[n].series :
            NamesController(d)
       /\ \A j \in DOMAIN cs :
            /\ MetricName("memory_errors") \in DOMAIN metric_list
            /\ \E d \in DOMAIN metric_list[MetricName("memory_errors")].series :
                /\ d["type"] = "correctable"
                /\ metric_list[MetricName("memory_errors")].series[d]
                    = IntOf(ResponseOf(cs[j])["Status"]["Memory Correctable Errors"]).n

====
